---- MODULE Spec2Model ----
\* A model of the to-do HTTP service of main.py and of the insight relay of
\* langchain_utils.py: the "todos" table, the route table in registration
\* order, request validation, and one action per request family.
EXTENDS Integers, Sequences, FiniteSets, TLC

\* ---------------------------------------------------------------- bounds
\* Number of ids the primary-key sequence hands out in a behaviour.
MaxId == 2
\* Longest task list sent to the insights endpoint.
MaxTasks == 2

\* ------------------------------------------------------------ characters
Digits == <<"0", "1", "2", "3", "4", "5", "6", "7", "8", "9">>

DigitValue(c) == (CHOOSE i \in 1..10 : Digits[i] = c) - 1

IsDigit(c) == \E i \in 1..10 : Digits[i] = c

\* Decimal rendering of a natural number, as a sequence of characters.
RECURSIVE Decimal(_)
Decimal(n) == IF n < 10 THEN <<Digits[n + 1]>>
              ELSE Decimal(n \div 10) \o <<Digits[(n % 10) + 1]>>

\* Path segments, as sequences of characters.
TODOS == <<"t", "o", "d", "o", "s">>
ALL == <<"a", "l", "l">>
INSIGHTS == <<"i", "n", "s", "i", "g", "h", "t", "s">>
EMPTY == << >>

IdSegments == {Decimal(i) : i \in 1..MaxId}

Segments == IdSegments \cup {ALL, INSIGHTS, EMPTY}

\* ---------------------------------------------------------------- routing
\* A route pattern is a sequence of parts: a literal or a path parameter.
Lit(s) == [lit |-> s]
Param == [param |-> "todo_id"]

\* The route table, in the order the decorators register the endpoints.
Routes == <<
    [method |-> "POST", pattern |-> <<Lit(TODOS), Lit(EMPTY)>>, endpoint |-> "create_todo"],
    [method |-> "GET", pattern |-> <<Lit(TODOS), Lit(EMPTY)>>, endpoint |-> "get_todos"],
    [method |-> "PUT", pattern |-> <<Lit(TODOS), Param>>, endpoint |-> "update_todo"],
    [method |-> "DELETE", pattern |-> <<Lit(TODOS), Param>>, endpoint |-> "delete_todo"],
    [method |-> "DELETE", pattern |-> <<Lit(TODOS), Lit(ALL)>>, endpoint |-> "delete_all_todos"],
    [method |-> "POST", pattern |-> <<Lit(TODOS), Lit(INSIGHTS)>>, endpoint |-> "get_task_insights"] >>

\* A part matches a segment: a literal matches itself, a parameter matches
\* any non-empty segment (the path regex [^/]+).
PartMatches(part, seg) ==
    IF "param" \in DOMAIN part THEN Len(seg) > 0 ELSE part.lit = seg

PathMatches(pattern, path) ==
    /\ Len(pattern) = Len(path)
    /\ \A i \in 1..Len(pattern) : PartMatches(pattern[i], path[i])

\* The router: the first route whose path and method both match handles the
\* request; a path that only matches under other methods gives 405, a path
\* no route matches gives 404.
Route(method, path) ==
    LET full == {i \in 1..Len(Routes) :
                    PathMatches(Routes[i].pattern, path) /\ Routes[i].method = method}
        partial == {i \in 1..Len(Routes) : PathMatches(Routes[i].pattern, path)}
    IN  IF full # {} THEN Routes[CHOOSE i \in full : \A j \in full : i <= j].endpoint
        ELSE IF partial # {} THEN "405" ELSE "404"

\* Conversion of a path segment to the int the endpoint declares.
RECURSIVE IntValue(_)
IntValue(seg) == IF Len(seg) = 0 THEN 0
                 ELSE 10 * IntValue(SubSeq(seg, 1, Len(seg) - 1)) + DigitValue(seg[Len(seg)])

ParseInt(seg) ==
    IF Len(seg) > 0 /\ \A i \in 1..Len(seg) : IsDigit(seg[i])
    THEN [ok |-> TRUE, value |-> IntValue(seg)]
    ELSE [ok |-> FALSE, value |-> 0]

\* ------------------------------------------------------------------ dates
\* A date travels as "YYYY-MM-DD"; it is modelled by its three numbers.
IsLeap(y) == (y % 4 = 0 /\ y % 100 # 0) \/ y % 400 = 0

DaysInMonth(y, m) ==
    IF m = 2 THEN (IF IsLeap(y) THEN 29 ELSE 28)
    ELSE IF m \in {4, 6, 9, 11} THEN 30 ELSE 31

\* Parsing a date field: out-of-range months and days are rejected.
ParseDate(d) ==
    /\ d[1] \in 1..9999
    /\ d[2] \in 1..12
    /\ d[3] \in 1..DaysInMonth(d[1], d[2])

\* Date order: year, then month, then day.
DateLeq(a, b) ==
    \/ a[1] < b[1]
    \/ a[1] = b[1] /\ a[2] < b[2]
    \/ a[1] = b[1] /\ a[2] = b[2] /\ a[3] <= b[3]

\* ----------------------------------------------------------------- inputs
Texts == {"", "A"}
NewYear == <<2025, 1, 1>>
NewYearsEve == <<2024, 12, 31>>
NoSuchDay == <<2025, 2, 30>>
Dates == {NewYear, NewYearsEve}

\* JSON bodies sent to POST /todos/ and PUT /todos/{id}: complete ones, ones
\* that omit completed, one with an empty text, and ones the request models
\* reject.
TodoBodies ==
    {[text |-> "A", date |-> d, completed |-> c] : d \in Dates, c \in BOOLEAN}
    \cup {[text |-> "A", date |-> d] : d \in Dates}
    \cup {[text |-> "", date |-> NewYear, completed |-> FALSE]}
    \cup {[date |-> NewYear], [text |-> "A"], [text |-> "A", date |-> NoSuchDay]}

\* The task lists sent to the insights endpoint: the first tasks of the
\* module's own example, repeated when the list is longer.
ExampleTasks == <<"Submit taxes", "Buy milk", "Prepare for client meeting">>

TaskList(n) == [i \in 1..n |-> ExampleTasks[((i - 1) % Len(ExampleTasks)) + 1]]

\* JSON bodies sent to POST /todos/insights.
InsightBodies == {[tasks |-> TaskList(n)] : n \in 0..MaxTasks} \cup {[text |-> "A"]}

\* What the remote model call can do: return a message, or raise.
Outcomes ==
    {[raises |-> FALSE, content |-> "1. Submit taxes"],
     [raises |-> TRUE, exc |-> [type |-> "APIConnectionError", args |-> <<"Connection error.">>]]}

\* Path segment and body of the PUT requests: every id with every body, and
\* one request on a segment that is no number.
PutInputs ==
    (IdSegments \X TodoBodies) \cup {<<ALL, [text |-> "A", date |-> NewYear, completed |-> TRUE]>>}

\* Method and path segment of requests no endpoint is registered for.
OtherInputs == {<<"DELETE", EMPTY>>, <<"PUT", EMPTY>>, <<"GET", ALL>>, <<"POST", Decimal(1)>>}

\* ------------------------------------------------------- request models
HasField(body, f) == f \in DOMAIN body

\* TodoCreate with a text that defaults to the empty string.
TodoCreate_TextDefault(body) ==
    IF HasField(body, "date") /\ ParseDate(body.date)
    THEN [ok |-> TRUE,
          text |-> IF HasField(body, "text") THEN body.text ELSE "",
          date |-> body.date,
          completed |-> IF HasField(body, "completed") THEN body.completed ELSE FALSE]
    ELSE [ok |-> FALSE]

\* TodoCreate: text and date required, completed defaults to False.
TodoCreate(body) ==
    IF HasField(body, "text") /\ HasField(body, "date") /\ ParseDate(body.date)
    THEN [ok |-> TRUE,
          text |-> body.text,
          date |-> body.date,
          completed |-> IF HasField(body, "completed") THEN body.completed ELSE FALSE]
    ELSE [ok |-> FALSE]

\* TodoUpdate: the same three fields, completed defaults to False.
TodoUpdate(body) ==
    IF HasField(body, "text") /\ HasField(body, "date") /\ ParseDate(body.date)
    THEN [ok |-> TRUE,
          text |-> body.text,
          date |-> body.date,
          completed |-> IF HasField(body, "completed") THEN body.completed ELSE FALSE]
    ELSE [ok |-> FALSE]

\* TasksRequest: tasks required.
TasksRequest(body) ==
    IF HasField(body, "tasks") THEN [ok |-> TRUE, tasks |-> body.tasks] ELSE [ok |-> FALSE]

\* TodoRead: the response shape of a row.
TodoRead(row) ==
    [id |-> row.id, text |-> row.text, date |-> row.date, completed |-> row.completed]

\* -------------------------------------------------------------- responses
Response(status, body) == [status |-> status, body |-> body]

HTTPException(status_code, detail) == Response(status_code, [detail |-> detail])

\* The framework's answer to a path parameter or body that fails validation.
ValidationError == HTTPException(422, "validation error")

\* ---------------------------------------------------------------- handlers
\* Each handler maps the table (and the id sequence) to the table after the
\* commit and the response.

\* Todo(text=..., date=...): completed is left to the column default.
create_todo(todo, rows, s) ==
    LET db_todo == [id |-> s + 1, text |-> todo.text, date |-> todo.date, completed |-> FALSE]
    IN  [db |-> rows \cup {db_todo}, seq |-> s + 1, resp |-> Response(200, TodoRead(db_todo))]

IsPermutationOf(s, rows) ==
    /\ Len(s) = Cardinality(rows)
    /\ \A r \in rows : \E i \in 1..Len(s) : s[i] = r

\* The rows in primary-key order, as a query without ORDER BY gives them.
OrderById(rows) ==
    {s \in [1..Cardinality(rows) -> rows] :
        /\ IsPermutationOf(s, rows)
        /\ \A i \in 1..Len(s) - 1 : s[i].id <= s[i + 1].id}

\* ORDER BY date ASC: every ordering of the rows with non-decreasing dates
\* (the order among equal dates is the database's choice).
OrderByDateAsc(rows) ==
    {s \in [1..Cardinality(rows) -> rows] :
        /\ IsPermutationOf(s, rows)
        /\ \A i \in 1..Len(s) - 1 : DateLeq(s[i].date, s[i + 1].date)}

\* The responses get_todos can give.
get_todos(rows) ==
    {Response(200, [i \in 1..Len(s) |-> TodoRead(s[i])]) : s \in OrderByDateAsc(rows)}

\* update_todo that inserts the record when the id is missing.
update_todo_Upsert(todo_id, updated, rows) ==
    LET found == {r \in rows : r.id = todo_id}
        new == [id |-> todo_id, text |-> updated.text, date |-> updated.date,
                completed |-> updated.completed]
    IN  [db |-> (rows \ found) \cup {new}, resp |-> Response(200, TodoRead(new))]

\* update_todo that adds the new version of the row and keeps the old one.
update_todo_Add(todo_id, updated, rows) ==
    LET found == {r \in rows : r.id = todo_id}
    IN  IF found = {}
        THEN [db |-> rows, resp |-> HTTPException(404, "To-do not found")]
        ELSE LET new == [id |-> todo_id, text |-> updated.text, date |-> updated.date,
                         completed |-> updated.completed]
             IN  [db |-> rows \cup {new}, resp |-> Response(200, TodoRead(new))]

\* update_todo that does not write completed.
update_todo_KeepCompleted(todo_id, updated, rows) ==
    LET found == {r \in rows : r.id = todo_id}
    IN  IF found = {}
        THEN [db |-> rows, resp |-> HTTPException(404, "To-do not found")]
        ELSE LET db_todo == CHOOSE r \in found : TRUE
                 new == [db_todo EXCEPT !.text = updated.text, !.date = updated.date]
             IN  [db |-> (rows \ {db_todo}) \cup {new}, resp |-> Response(200, TodoRead(new))]

update_todo(todo_id, updated, rows) ==
    LET found == {r \in rows : r.id = todo_id}
    IN  IF found = {}
        THEN [db |-> rows, resp |-> HTTPException(404, "To-do not found")]
        ELSE LET db_todo == CHOOSE r \in found : TRUE
                 new == [db_todo EXCEPT !.text = updated.text,
                                        !.date = updated.date,
                                        !.completed = updated.completed]
             IN  [db |-> (rows \ {db_todo}) \cup {new}, resp |-> Response(200, TodoRead(new))]

\* delete_todo whose query lost its filter on the id.
delete_todo_NoFilter(todo_id, rows) ==
    LET found == rows
    IN  IF found = {}
        THEN [db |-> rows, resp |-> HTTPException(404, "To-do not found")]
        ELSE LET db_todo == CHOOSE r \in found : TRUE
             IN  [db |-> rows \ {db_todo},
                  resp |-> Response(200, [message |-> [fmt |-> "To-do with ID {} deleted.",
                                                       arg |-> todo_id]])]

delete_todo(todo_id, rows) ==
    LET found == {r \in rows : r.id = todo_id}
    IN  IF found = {}
        THEN [db |-> rows, resp |-> HTTPException(404, "To-do not found")]
        ELSE LET db_todo == CHOOSE r \in found : TRUE
             IN  [db |-> rows \ {db_todo},
                  resp |-> Response(200, [message |-> [fmt |-> "To-do with ID {} deleted.",
                                                       arg |-> todo_id]])]

delete_all_todos(rows) ==
    LET deleted == Cardinality(rows)
    IN  [db |-> {},
         resp |-> Response(200, [message |-> [fmt |-> "Deleted {} to-do(s).", arg |-> deleted]])]

\* "\n".join(f"- {task}" for task in task_list), as a sequence of pieces.
RECURSIVE FormatTasks(_)
FormatTasks(task_list) ==
    IF Len(task_list) = 0 THEN << >>
    ELSE IF Len(task_list) = 1 THEN <<"- ", task_list[1]>>
    ELSE <<"- ", task_list[1], "\n">> \o FormatTasks(Tail(task_list))

\* One call of the chain: the call made (the prompt variables sent and what
\* the remote model did), and either the reply's content or the exception.
get_task_priorities(task_list, outcome) ==
    LET formatted_tasks == FormatTasks(task_list)
        sent == <<[tasks |-> formatted_tasks, outcome |-> outcome]>>
    IN  IF outcome.raises
        THEN [invoked |-> sent, raised |-> TRUE, exc |-> outcome.exc]
        ELSE [invoked |-> sent, raised |-> FALSE, result |-> outcome.content]

\* str(e) of an exception with one argument.
Str(e) == e.args[1]

\* get_task_insights without the check for an empty list.
get_task_insights_NoCheck(request, outcome) ==
    LET call == get_task_priorities(request.tasks, outcome)
    IN  IF call.raised
        THEN [invoked |-> call.invoked, resp |-> HTTPException(500, Str(call.exc))]
        ELSE [invoked |-> call.invoked, resp |-> Response(200, [insights |-> call.result])]

\* get_task_insights that calls the remote model again after a failure.
get_task_insights_Retry(request, outcome) ==
    IF request.tasks = << >>
    THEN [invoked |-> << >>, resp |-> HTTPException(400, "Task list cannot be empty")]
    ELSE LET call == get_task_priorities(request.tasks, outcome)
             again == get_task_priorities(request.tasks, outcome)
         IN  IF call.raised
             THEN [invoked |-> call.invoked \o again.invoked,
                   resp |-> HTTPException(500, Str(again.exc))]
             ELSE [invoked |-> call.invoked, resp |-> Response(200, [insights |-> call.result])]

get_task_insights(request, outcome) ==
    IF request.tasks = << >>
    THEN [invoked |-> << >>, resp |-> HTTPException(400, "Task list cannot be empty")]
    ELSE LET call == get_task_priorities(request.tasks, outcome)
         IN  IF call.raised
             THEN [invoked |-> call.invoked, resp |-> HTTPException(500, Str(call.exc))]
             ELSE [invoked |-> call.invoked, resp |-> Response(200, [insights |-> call.result])]

\* ------------------------------------------------------------------ state
VARIABLES
    db,       \* the rows of the todos table
    seq,      \* last value of the primary-key sequence
    req,      \* the request served last
    resp,     \* the response to it
    invoked   \* the calls of the remote model made while serving it

vars == <<db, seq, req, resp, invoked>>

Init ==
    /\ db = {}
    /\ seq = 0
    /\ req = [method |-> "", path |-> << >>]
    /\ resp = Response(0, [detail |-> ""])
    /\ invoked = << >>

\* POST /todos/
PostTodos ==
    \E body \in TodoBodies :
        LET path == <<TODOS, EMPTY>>
            todo == TodoCreate(body)
        IN  /\ Route("POST", path) = "create_todo"
            /\ req' = [method |-> "POST", path |-> path, body |-> body]
            /\ invoked' = << >>
            /\ IF todo.ok
               THEN /\ seq < MaxId
                    /\ LET out == create_todo(todo, db, seq)
                       IN  db' = out.db /\ seq' = out.seq /\ resp' = out.resp
               ELSE resp' = ValidationError /\ UNCHANGED <<db, seq>>

\* GET /todos/
GetTodos ==
    LET path == <<TODOS, EMPTY>>
    IN  /\ Route("GET", path) = "get_todos"
        /\ req' = [method |-> "GET", path |-> path]
        /\ invoked' = << >>
        /\ resp' \in get_todos(db)
        /\ UNCHANGED <<db, seq>>

\* PUT /todos/{todo_id}
PutTodo ==
    \E input \in PutInputs :
        LET seg == input[1]
            body == input[2]
            path == <<TODOS, seg>>
            todo_id == ParseInt(seg)
            updated == TodoUpdate(body)
        IN  /\ Route("PUT", path) = "update_todo"
            /\ req' = [method |-> "PUT", path |-> path, body |-> body]
            /\ invoked' = << >>
            /\ IF todo_id.ok /\ updated.ok
               THEN LET out == update_todo(todo_id.value, updated, db)
                    IN  db' = out.db /\ resp' = out.resp
               ELSE resp' = ValidationError /\ UNCHANGED db
            /\ UNCHANGED seq

\* DELETE /todos/<segment>: the router picks the endpoint.
DeleteTodos ==
    \E seg \in Segments :
        LET path == <<TODOS, seg>>
            endpoint == Route("DELETE", path)
            todo_id == ParseInt(seg)
        IN  /\ endpoint \in {"delete_todo", "delete_all_todos"}
            /\ req' = [method |-> "DELETE", path |-> path]
            /\ invoked' = << >>
            /\ IF endpoint = "delete_todo"
               THEN IF todo_id.ok
                    THEN LET out == delete_todo(todo_id.value, db)
                         IN  db' = out.db /\ resp' = out.resp
                    ELSE resp' = ValidationError /\ UNCHANGED db
               ELSE LET out == delete_all_todos(db)
                    IN  db' = out.db /\ resp' = out.resp
            /\ UNCHANGED seq

\* POST /todos/insights
PostInsights ==
    \E body \in InsightBodies, outcome \in Outcomes :
        LET path == <<TODOS, INSIGHTS>>
            request == TasksRequest(body)
        IN  /\ Route("POST", path) = "get_task_insights"
            /\ req' = [method |-> "POST", path |-> path, body |-> body]
            /\ IF request.ok
               THEN LET out == get_task_insights(request, outcome)
                    IN  invoked' = out.invoked /\ resp' = out.resp
               ELSE invoked' = << >> /\ resp' = ValidationError
            /\ UNCHANGED <<db, seq>>

\* A path some route matches, but under no route with the request's method.
MethodNotAllowed ==
    \E input \in OtherInputs :
        LET method == input[1]
            path == <<TODOS, input[2]>>
        IN  /\ Route(method, path) = "405"
            /\ req' = [method |-> method, path |-> path]
            /\ invoked' = << >>
            /\ resp' = HTTPException(405, "Method Not Allowed")
            /\ UNCHANGED <<db, seq>>

Next ==
    \/ PostTodos
    \/ GetTodos
    \/ PutTodo
    \/ DeleteTodos
    \/ PostInsights
    \/ MethodNotAllowed

Spec == Init /\ [][Next]_vars

TypeOK ==
    /\ seq \in 0..MaxId
    /\ \A r \in db : r.id \in 1..seq /\ r.text \in Texts /\ r.date \in Dates /\ r.completed \in BOOLEAN

\* ---------------------------------------------------------- properties
IsRequest(r, method, seg) == r.method = method /\ r.path = <<TODOS, seg>>

\* A request on /todos/<number> with the given method.
IsIdRequest(r, method) ==
    r.method = method /\ Len(r.path) = 2 /\ r.path[1] = TODOS /\ ParseInt(r.path[2]).ok

PathId(r) == ParseInt(r.path[2]).value

Ids(rows) == {r.id : r \in rows}

\* completed as the request gives it: false when the field is omitted.
RequestedCompleted(body) == HasField(body, "completed") /\ body.completed

\* A date as one number, YYYYMMDD.
DateKey(d) == d[1] * 10000 + d[2] * 100 + d[3]

\* C1: a DELETE on /todos/all is answered 200 with the number of rows that
\* were stored before it, and leaves a table whose listing is empty.
C1_DeleteAllHandled ==
    [][IsRequest(req', "DELETE", ALL)
         => /\ resp'.status = 200
            /\ resp'.body.message.arg = Cardinality(db)
            /\ get_todos(db') = {Response(200, << >>)}]_vars

\* C2: the Todo a create request stores, returns and a later list shows has
\* completed = true exactly when the request sets completed to true.
C2_CreateKeepsCompleted ==
    (IsRequest(req, "POST", EMPTY) /\ resp.status = 200)
        => /\ resp.body.completed = RequestedCompleted(req.body)
           /\ \E r \in db : r.id = resp.body.id /\ r.completed = RequestedCompleted(req.body)
           /\ \A listing \in get_todos(db) :
                \E i \in 1..Len(listing.body) :
                    /\ listing.body[i].id = resp.body.id
                    /\ listing.body[i].completed = RequestedCompleted(req.body)

\* C3: the response to GET /todos/ holds every stored Todo exactly once and
\* nothing else, in non-decreasing order of date.
C3_ListSortedExact ==
    IsRequest(req, "GET", EMPTY)
        => /\ resp.status = 200
           /\ Len(resp.body) = Cardinality(db)
           /\ \A r \in db : Cardinality({i \in 1..Len(resp.body) : resp.body[i] = TodoRead(r)}) = 1
           /\ \A i \in 1..Len(resp.body) : \E r \in db : resp.body[i] = TodoRead(r)
           /\ \A i, j \in 1..Len(resp.body) :
                i < j => DateKey(resp.body[i].date) <= DateKey(resp.body[j].date)

\* A listing of two Todos in which the one created later comes first.
C3_Witness ==
    /\ IsRequest(req, "GET", EMPTY)
    /\ Len(resp.body) = 2
    /\ resp.body[1].id > resp.body[2].id
    /\ resp.body[1].date # resp.body[2].date

\* C4: a well-formed update of an id that is not stored is answered 404 and
\* leaves the table as it was.
C4_UpdateMissing ==
    [][(IsIdRequest(req', "PUT") /\ TodoUpdate(req'.body).ok /\ PathId(req') \notin Ids(db))
         => resp'.status = 404 /\ db' = db]_vars

\* An update answered 404 while other Todos are stored.
C4_Witness == IsIdRequest(req, "PUT") /\ resp.status = 404 /\ db # {}

\* C5: a delete by id is answered 200 and removes exactly the rows with that
\* id when the id is stored, and is answered 404 with the table unchanged
\* when it is not.
C5_DeleteOne ==
    [][IsIdRequest(req', "DELETE")
         => IF PathId(req') \in Ids(db)
            THEN resp'.status = 200 /\ db' = {r \in db : r.id # PathId(req')}
            ELSE resp'.status = 404 /\ db' = db]_vars

\* A delete that succeeded and left another Todo behind.
C5_Witness == IsIdRequest(req, "DELETE") /\ resp.status = 200 /\ db # {}

\* C6: an insights request with an empty task list is answered 400 without
\* a call of the remote model, and the remote model is called only while an
\* insights request with a non-empty task list is served.
C6_EmptyTasksRejected ==
    /\ (IsRequest(req, "POST", INSIGHTS) /\ HasField(req.body, "tasks") /\ req.body.tasks = << >>)
         => resp.status = 400 /\ invoked = << >>
    /\ invoked # << >>
         => IsRequest(req, "POST", INSIGHTS) /\ HasField(req.body, "tasks") /\ req.body.tasks # << >>

\* An insights request with an empty task list, answered.
C6_Witness ==
    /\ IsRequest(req, "POST", INSIGHTS)
    /\ HasField(req.body, "tasks")
    /\ req.body.tasks = << >>
    /\ resp.status = 400

\* C7 as stated: no stored Todo has the empty string as its text.
C7_TextNonEmpty == \A r \in db : r.text # ""

\* C7 as amended: a row a request writes carries the text of that request,
\* and a create or update request without a text field is answered 422 and
\* leaves the table as it was; the text may be the empty string.
C7_TextFromRequest ==
    [][/\ \A r \in db' \ db :
            /\ req'.method \in {"POST", "PUT"}
            /\ HasField(req'.body, "text")
            /\ r.text = req'.body.text
       /\ ((IsRequest(req', "POST", EMPTY) \/ IsIdRequest(req', "PUT"))
              /\ ~HasField(req'.body, "text"))
            => resp'.status = 422 /\ db' = db]_vars

\* A create request with an empty text was accepted and its row is stored.
C7_Witness ==
    /\ IsRequest(req, "POST", EMPTY)
    /\ resp.status = 200
    /\ req.body.text = ""
    /\ \E r \in db : r.id = resp.body.id /\ r.text = ""

\* C8: no two stored Todos share an id, and a successful update returns the
\* record with the id of the path and leaves the set of stored ids unchanged.
C8_IdUniqueImmutable ==
    [][/\ \A r1, r2 \in db' : r1.id = r2.id => r1 = r2
       /\ (IsIdRequest(req', "PUT") /\ resp'.status = 200)
            => /\ resp'.body.id = PathId(req')
               /\ Ids(db') = Ids(db)
               /\ \E r \in db' : TodoRead(r) = resp'.body]_vars

\* A successful update of one of two stored Todos.
C8_Witness == IsIdRequest(req, "PUT") /\ resp.status = 200 /\ Cardinality(db) = 2

\* C9: an insights request with a non-empty task list calls the remote model
\* exactly once; the answer is 200 with the reply's content when the call
\* returns and 500 with the exception's text when it raises; the table and
\* the id sequence are unchanged.
C9_OneRemoteCall ==
    [][(IsRequest(req', "POST", INSIGHTS) /\ HasField(req'.body, "tasks") /\ req'.body.tasks # << >>)
         => /\ Len(invoked') = 1
            /\ IF invoked'[1].outcome.raises
               THEN resp'.status = 500 /\ resp'.body.detail = invoked'[1].outcome.exc.args[1]
               ELSE resp'.status = 200 /\ resp'.body.insights = invoked'[1].outcome.content
            /\ db' = db
            /\ seq' = seq]_vars

\* An insights request whose remote call raised, with Todos stored.
C9_Witness ==
    /\ IsRequest(req, "POST", INSIGHTS)
    /\ resp.status = 500
    /\ Len(invoked) = 1
    /\ db # {}

\* C10: a well-formed update of a stored id is answered 200 and replaces
\* text, date and completed of that row by the request's values (completed
\* false when omitted); the other rows and the number of rows are unchanged.
C10_UpdateOverwrites ==
    [][(IsIdRequest(req', "PUT") /\ TodoUpdate(req'.body).ok /\ PathId(req') \in Ids(db))
         => LET new == [id |-> PathId(req'),
                        text |-> req'.body.text,
                        date |-> req'.body.date,
                        completed |-> RequestedCompleted(req'.body)]
            IN  /\ resp'.status = 200
                /\ resp'.body = new
                /\ db' = {r \in db : r.id # PathId(req')} \cup {new}
                /\ Cardinality(db') = Cardinality(db)]_vars

\* A successful update that omitted completed, with a second Todo stored
\* whose completed flag is set.
C10_Witness ==
    /\ IsIdRequest(req, "PUT")
    /\ resp.status = 200
    /\ ~HasField(req.body, "completed")
    /\ \E r \in db : r.id # PathId(req) /\ r.completed

====
